---- MODULE Spec2Model ----
(***************************************************************************)
(* Box utilities of mask_rcnn_pytorch/boxutils.cpp: pairwise IoU           *)
(* (BBoxOverlaps, BBoxOverlapsLoops with ComputeIou), box regression       *)
(* targets (BoxRefinement, ApplyBoxDeltas) and clipping (ClipBoxes,        *)
(* ClipToWindow).                                                          *)
(*                                                                         *)
(* A tensor of shape [R, C] is a sequence of R rows, each a sequence of C  *)
(* numbers.  Box coordinates are integers.  Quotients are exact rationals  *)
(* <<n, d>> in lowest terms with d > 0; a division by zero gives the IEEE  *)
(* outcome: <<0, 0>> is NaN, <<1, 0>> is +Inf, <<-1, 0>> is -Inf.          *)
(* The caller owns boxes1, boxes2 and deltas; a call is one action, except *)
(* the loop of BBoxOverlapsLoops, which takes one action per iteration.    *)
(* done lists the calls that have returned, status whether each returned a *)
(* tensor ("ok") or threw ("error"); before, once, out and out2 keep the   *)
(* argument and the results of the clipping calls.                         *)
(***************************************************************************)
EXTENDS Integers, Sequences, FiniteSets, TLC

VARIABLES boxes1, boxes2, deltas, window, overlaps, loopOverlaps, area1,
          area2, col, written, out, out2, once, before, status, done, pc

vars == <<boxes1, boxes2, deltas, window, overlaps, loopOverlaps, area1,
          area2, col, written, out, out2, once, before, status, done, pc>>

\* ---------------------------------------------------------------- bounds
\* Most rows of boxes1.
MaxN == 2
\* Most rows of boxes2.
MaxM == 2
\* Box coordinates are drawn from 0..MaxCoord.
MaxCoord == 3
\* Most different boxes the caller's two sets hold together.
MaxDistinct == 2
\* Window coordinates are drawn from 0..MaxWindow.
MaxWindow == 2

\* ------------------------------------------------------------ arithmetic
Max(a, b) == IF a >= b THEN a ELSE b
Min(a, b) == IF a <= b THEN a ELSE b
Abs(a) == IF a < 0 THEN -a ELSE a
Sign(a) == IF a < 0 THEN -1 ELSE IF a > 0 THEN 1 ELSE 0

RECURSIVE GCD(_, _)
GCD(a, b) == IF b = 0 THEN a ELSE GCD(b, a % b)

NaN == <<0, 0>>

\* a / b as the float division computes it, exactly: a rational in lowest
\* terms, or NaN (0/0) or a signed infinity (x/0).
Div(a, b) ==
    IF b = 0 THEN <<Sign(a), 0>>
    ELSE LET g == GCD(Abs(a), Abs(b))
         IN  <<(Sign(b) * a) \div g, Abs(b) \div g>>

Rat(k) == <<k, 1>>
RAdd(r, s) == Div(r[1] * s[2] + s[1] * r[2], r[2] * s[2])
RSub(r, s) == Div(r[1] * s[2] - s[1] * r[2], r[2] * s[2])
RMul(r, s) == Div(r[1] * s[1], r[2] * s[2])
RDiv(r, s) == Div(r[1] * s[2], r[2] * s[1])
Half == <<1, 2>>

\* ------------------------------------------------------- tensor plumbing
\* t.narrow(1, c, 1): column c (0-based) of t as an [R, 1] tensor.
Narrow(t, c) == [i \in 1..Len(t) |-> <<t[i][c + 1]>>]

\* t.repeat({1, r}): every row followed by itself r times, [R, 4r].
RepeatCols(t, r) ==
    [i \in 1..Len(t) |-> [c \in 1..(4 * r) |-> t[i][((c - 1) % 4) + 1]]]

\* t.repeat({r, 1}): the whole tensor r times, one copy under the other.
RepeatRows(t, r) ==
    [k \in 1..(Len(t) * r) |-> t[((k - 1) % Len(t)) + 1]]

\* Row-major element e (0-based) of a tensor whose rows have w entries.
Elem(t, w, e) == t[(e \div w) + 1][(e % w) + 1]

\* t.view({rows, cols}) of a contiguous tensor whose rows have w entries.
View(t, w, rows, cols) ==
    [k \in 1..rows |-> [c \in 1..cols |-> Elem(t, w, (k - 1) * cols + (c - 1))]]

\* ---------------------------------------------------------- BBoxOverlaps
\* boxes1.repeat({1, boxes1_repeat}).view({-1, 4})
TileBoxes1(b1, rep) ==
    View(RepeatCols(b1, rep), 4 * rep, Len(b1) * rep, 4)

\* boxes2.repeat({boxes2_repeat, 1})
TileBoxes2(b2, rep) == RepeatRows(b2, rep)

\* Steps 2 to 4 on one row of the tiled tensors: r1 a row of boxes1, r2 of
\* boxes2, both (y1, x1, y2, x2).  chunk(4, 1) gives b[0..3] = y1, x1, y2, x2.
VecIntersection(r1, r2) ==
    LET y1 == Max(r1[1], r2[1])
        x1 == Max(r1[2], r2[2])
        y2 == Min(r1[3], r2[3])
        x2 == Min(r1[4], r2[4])
    IN  Max(x2 - x1, 0) * Max(y2 - y1, 0)

\* (b[2] - b[1]) * (b[3] - b[0])
VecArea(r) == (r[3] - r[2]) * (r[4] - r[1])

VecUnion(r1, r2) == VecArea(r1) + VecArea(r2) - VecIntersection(r1, r2)

VecIou(r1, r2) == Div(VecIntersection(r1, r2), VecUnion(r1, r2))

\* iou.view({boxes2_repeat, boxes1_repeat})
OverlapsViewFlipped(iou, rep2, rep1) == View(iou, 1, rep1, rep2)
OverlapsView(iou, rep2, rep1) == View(iou, 1, rep2, rep1)

BBoxOverlaps(b1, b2) ==
    LET boxes1_repeat == Len(b2)
        boxes2_repeat == Len(b1)
        t1 == TileBoxes1(b1, boxes1_repeat)
        t2 == TileBoxes2(b2, boxes2_repeat)
        iou == [k \in 1..Len(t1) |-> <<VecIou(t1[k], t2[k])>>]
    IN  OverlapsView(iou, boxes2_repeat, boxes1_repeat)

\* ----------------------------------------------------- BBoxOverlapsLoops
\* (boxes.narrow(1,2,1) - boxes.narrow(1,0,1)) *
\* (boxes.narrow(1,3,1) - boxes.narrow(1,1,1)), an [R, 1] tensor.
Areas(b) == [i \in 1..Len(b) |-> <<(b[i][3] - b[i][1]) * (b[i][4] - b[i][2])>>]

\* torch::zeros({rows, cols})
Zeros(rows, cols) == [i \in 1..rows |-> [c \in 1..cols |-> Rat(0)]]

\* ComputeIou(box, boxes, box_area, boxes_area): box is 1-D, box_area has
\* shape [1], boxes_area shape [R, 1]; the result is [R, 1].
ComputeIouNoClamp(box, boxes, box_area, boxes_area) ==
    [i \in 1..Len(boxes) |->
        LET y1 == Max(box[1], boxes[i][1])
            y2 == Min(box[3], boxes[i][3])
            x1 == Max(box[2], boxes[i][2])
            x2 == Min(box[4], boxes[i][4])
            intersection == (x2 - x1) * (y2 - y1)
            union_ == box_area[1] + boxes_area[i][1] - intersection
        IN  <<Div(intersection, union_)>>]
ComputeIou(box, boxes, box_area, boxes_area) ==
    [i \in 1..Len(boxes) |->
        LET y1 == Max(box[1], boxes[i][1])
            y2 == Min(box[3], boxes[i][3])
            x1 == Max(box[2], boxes[i][2])
            x2 == Min(box[4], boxes[i][4])
            intersection == Max(x2 - x1, 0) * Max(y2 - y1, 0)
            union_ == box_area[1] + boxes_area[i][1] - intersection
        IN  <<Div(intersection, union_)>>]

\* t.narrow(1, c, 1) = v: the rvalue assignment copies v into column c
\* (0-based) of t's storage.
CopyIntoColumn(t, c, v) ==
    [i \in 1..Len(t) |-> [k \in 1..Len(t[i]) |->
        IF k = c + 1 THEN v[i][1] ELSE t[i][k]]]

\* ------------------------------------------------------- shapes, storage
\* t.squeeze(): every dimension of size 1 is dropped.
SqueezeAll(shape) == SelectSeq(shape, LAMBDA d : d # 1)

\* t.squeeze(dim): dimension dim (0-based) is dropped if its size is 1.
SqueezeDim(shape, dim) ==
    IF shape[dim + 1] = 1
    THEN [k \in 1..(Len(shape) - 1) |-> IF k <= dim THEN shape[k] ELSE shape[k + 1]]
    ELSE shape

\* torch::stack(tensors of this shape, dim) inserts a dimension at dim, which
\* must lie in [0, rank]; otherwise it throws.
StackOk(shape, dim) == dim >= 0 /\ dim <= Len(shape)

\* What a call hands back: a tensor, or nothing when it threw.
Returned(t) == [ok |-> TRUE, val |-> t]
Thrown == [ok |-> FALSE, val |-> <<>>]

\* Whose storage a tensor expression writes to when it is written in place:
\* the caller's argument ("arg") or a tensor allocated in the call ("fresh").
Arg == "arg"
Fresh == "fresh"
\* t.narrow(...) is a view of t.
NarrowOwner(o) == o
\* a - b, a + b, a * b allocate their result.
ArithOwner(o) == Fresh
\* t.clamp(lo, hi) allocates its result (clamp_ would write t).
ClampInPlaceOwner(o) == o
ClampOwner(o) == Fresh

\* An in-place write of column c (0-based) through a tensor owned by o.
WriteColumn(o, storage, c, v) ==
    IF o = Arg THEN CopyIntoColumn(storage, c, v) ELSE storage

\* --------------------------------------------------------- BoxRefinement
\* torch::log and torch::exp over the exact reals: log of a positive ratio
\* is kept as the ratio it is the logarithm of; the log of a negative
\* number or of NaN is NaN.
Log(r) == IF r[1] < 0 \/ r = NaN THEN [log |-> NaN] ELSE [log |-> r]
Exp(l) == l.log

RefinementRow(b, g) ==
    LET height == Rat(b[3] - b[1])
        width == Rat(b[4] - b[2])
        center_y == RAdd(Rat(b[1]), RMul(Half, height))
        center_x == RAdd(Rat(b[2]), RMul(Half, width))
        gt_height == Rat(g[3] - g[1])
        gt_width == Rat(g[4] - g[2])
        gt_center_y == RAdd(Rat(g[1]), RMul(Half, gt_height))
        gt_center_x == RAdd(Rat(g[2]), RMul(Half, gt_width))
        dy == RDiv(RSub(gt_center_y, center_y), height)
        dx == RDiv(RSub(gt_center_x, center_x), width)
        dh == Log(RDiv(gt_height, height))
        dw == Log(RDiv(gt_width, width))
    IN  <<dy, dx, dh, dw>>

\* Rows are paired by index; each [N, 1] column is squeezed with squeeze(1).
BoxRefinement(box, gt_box) ==
    IF StackOk(SqueezeDim(<<Len(box), 1>>, 1), 1)
    THEN Returned([i \in 1..Len(box) |-> RefinementRow(box[i], gt_box[i])])
    ELSE Thrown

\* -------------------------------------------------------- ApplyBoxDeltas
ApplyRow(b, d) ==
    LET height0 == Rat(b[3] - b[1])
        width0 == Rat(b[4] - b[2])
        center_y0 == RAdd(Rat(b[1]), RMul(Half, height0))
        center_x0 == RAdd(Rat(b[2]), RMul(Half, width0))
        center_y == RAdd(center_y0, RMul(d[1], height0))
        center_x == RAdd(center_x0, RMul(d[2], width0))
        height == RMul(height0, Exp(d[3]))
        width == RMul(width0, Exp(d[4]))
        y1 == RSub(center_y, RMul(Half, height))
        x1 == RSub(center_x, RMul(Half, width))
        y2 == RAdd(y1, height)
        x2 == RAdd(x1, width)
    IN  <<y1, x1, y2, x2>>

\* Each [N, 1] column is squeezed with squeeze() before the stack along 1.
ApplyBoxDeltas(boxes, dl) ==
    IF StackOk(SqueezeAll(<<Len(boxes), 1>>), 1)
    THEN Returned([i \in 1..Len(boxes) |-> ApplyRow(boxes[i], dl[i])])
    ELSE Thrown

\* The caller's boxes after the call: center_y +=, center_x +=, height *=
\* and width *= write tensors that operator+ and operator- allocated.
ApplyBoxDeltasStorage(boxes, dl) ==
    LET o == ArithOwner(NarrowOwner(Arg))
        applied == [i \in 1..Len(boxes) |-> ApplyRow(boxes[i], dl[i])]
        cy == [i \in 1..Len(boxes) |->
                  <<RAdd(applied[i][1], RMul(Half, RSub(applied[i][3], applied[i][1])))>>]
        h == [i \in 1..Len(boxes) |-> <<RSub(applied[i][3], applied[i][1])>>]
    IN  WriteColumn(o, WriteColumn(o, boxes, 0, cy), 2, h)

\* -------------------------------------------------------------- clipping
\* t.clamp(lo, hi) = min(max(t, lo), hi) on an [N, 1] column.
Clamp(v, lo, hi) == [i \in 1..Len(v) |-> <<Min(Max(v[i][1], lo), hi)>>]

\* Bounds of column c (0-based): y columns 0 and 2, x columns 1 and 3.
Lower(w, c) == IF c % 2 = 0 THEN w[1] ELSE w[2]
Upper(w, c) == IF c % 2 = 0 THEN w[3] ELSE w[4]

ClipColumn(boxes, w, c) == Clamp(Narrow(boxes, c), Lower(w, c), Upper(w, c))

\* Each clamped [N, 1] column is squeezed with squeeze() before the stack.
ClipBoxes(boxes, w) ==
    IF StackOk(SqueezeAll(<<Len(boxes), 1>>), 1)
    THEN Returned([i \in 1..Len(boxes) |->
                      [k \in 1..4 |-> ClipColumn(boxes, w, k - 1)[i][1]]])
    ELSE Thrown

\* The caller's boxes after ClipBoxes: the clamps write where clamp's result
\* lives, and boxes = torch::stack(...) rebinds the local handle only.
RECURSIVE ClipBoxesWrites(_, _, _)
ClipBoxesWrites(boxes, w, c) ==
    IF c > 3 THEN boxes
    ELSE ClipBoxesWrites(
             WriteColumn(ClampOwner(NarrowOwner(Arg)), boxes, c, ClipColumn(boxes, w, c)),
             w, c + 1)
ClipBoxesStorage(boxes, w) == ClipBoxesWrites(boxes, w, 0)

\* boxes.narrow(1, c, 1) = boxes.narrow(1, c, 1).clamp(lo, hi), c = 0..3:
\* each assignment copies into the caller's storage; the handle returned
\* shares that storage.
RECURSIVE ClipToWindowWrites(_, _, _)
ClipToWindowWrites(w, boxes, c) ==
    IF c > 3 THEN boxes
    ELSE ClipToWindowWrites(
             w, WriteColumn(NarrowOwner(Arg), boxes, c, ClipColumn(boxes, w, c)), c + 1)
ClipToWindow(w, boxes) == ClipToWindowWrites(w, boxes, 0)

\* ---------------------------------------------------------------- inputs
\* Well-formed boxes (y1, x1, y2, x2): y2 > y1 and x2 > x1.
Boxes ==
    {b \in [1..4 -> 0..MaxCoord] : b[3] > b[1] /\ b[4] > b[2]}

\* Box sets of 1 to n rows, every row one of the boxes of pal.
BoxSets(pal, n) == UNION {[1..k -> pal] : k \in 1..n}

\* Windows (y1, x1, y2, x2) with y1 <= y2 and x1 <= x2.
Windows ==
    {w \in [1..4 -> 0..MaxWindow] : w[1] <= w[3] /\ w[2] <= w[4]}

StatusOf(r) == IF r.ok THEN "ok" ELSE "error"

\* ----------------------------------------------------------------- state
NoCall ==
    /\ deltas = <<>> /\ window = <<>> /\ overlaps = <<>>
    /\ loopOverlaps = <<>> /\ area1 = <<>> /\ area2 = <<>>
    /\ col = 0 /\ written = <<>>
    /\ out = <<>> /\ out2 = <<>> /\ once = <<>> /\ before = <<>>
    /\ status = <<>> /\ done = <<>> /\ pc = "idle"

\* The caller holds one box set (boxes2 empty) or two, of N >= 1 and M >= 1
\* rows.
Init ==
    /\ \E p \in [1..MaxDistinct -> Boxes] :
          LET pal == {p[k] : k \in 1..MaxDistinct}
          IN  /\ boxes1 \in BoxSets(pal, MaxN)
              /\ boxes2 \in {<<>>} \cup BoxSets(pal, MaxM)
    /\ NoCall

\* The functions of two box sets are called by the caller that holds two,
\* the clipping functions by the caller that holds one.
TwoSets == boxes2 # <<>>
OneSet == boxes2 = <<>>

Finish(name, st) ==
    /\ done' = Append(done, name)
    /\ status' = Append(status, st)

\* overlaps = BBoxOverlaps(boxes1, boxes2)
BBoxOverlapsCall ==
    /\ pc = "idle" /\ done = <<>> /\ TwoSets
    /\ overlaps' = BBoxOverlaps(boxes1, boxes2)
    /\ Finish("BBoxOverlaps", "ok")
    /\ UNCHANGED <<boxes1, boxes2, deltas, window, loopOverlaps, area1, area2,
                   col, written, out, out2, once, before, pc>>

\* BBoxOverlapsLoops(boxes1, boxes2) up to the loop: the areas, the zero
\* matrix, i = 0.
LoopsBegin ==
    /\ pc = "idle" /\ done \in {<<>>, <<"BBoxOverlaps">>} /\ TwoSets
    /\ area1' = Areas(boxes1)
    /\ area2' = Areas(boxes2)
    /\ loopOverlaps' = Zeros(Len(boxes1), Len(boxes2))
    /\ col' = 0
    /\ written' = [j \in 1..Len(boxes2) |-> 0]
    /\ pc' = "loop"
    /\ UNCHANGED <<boxes1, boxes2, deltas, window, overlaps, out, out2, once,
                   before, status, done>>

\* One iteration: i < overlaps.size(1).
LoopsIter ==
    /\ pc = "loop" /\ col < Len(loopOverlaps[1])
    /\ LET box2 == boxes2[col + 1]
           iou == ComputeIou(box2, boxes1, area2[col + 1], area1)
       IN  loopOverlaps' = CopyIntoColumn(loopOverlaps, col, iou)
    /\ written' = [written EXCEPT ![col + 1] = @ + 1]
    /\ col' = col + 1
    /\ UNCHANGED <<boxes1, boxes2, deltas, window, overlaps, area1, area2, out,
                   out2, once, before, status, done, pc>>

\* The loop ends and overlaps is returned.
LoopsReturn ==
    /\ pc = "loop" /\ ~(col < Len(loopOverlaps[1]))
    /\ pc' = "idle"
    /\ Finish("BBoxOverlapsLoops", "ok")
    /\ UNCHANGED <<boxes1, boxes2, deltas, window, overlaps, loopOverlaps,
                   area1, area2, col, written, out, out2, once, before>>

\* deltas = BoxRefinement(boxes1, boxes2), the rows paired one to one.
BoxRefinementCall ==
    /\ pc = "idle" /\ done = <<>> /\ TwoSets
    /\ Len(boxes1) = Len(boxes2)
    /\ LET r == BoxRefinement(boxes1, boxes2)
       IN  /\ deltas' = r.val
           /\ Finish("BoxRefinement", StatusOf(r))
    /\ UNCHANGED <<boxes1, boxes2, window, overlaps, loopOverlaps, area1, area2,
                   col, written, out, out2, once, before, pc>>

\* out = ApplyBoxDeltas(boxes1, deltas)
ApplyBoxDeltasCall ==
    /\ pc = "idle" /\ done = <<"BoxRefinement">> /\ status[1] = "ok"
    /\ LET r == ApplyBoxDeltas(boxes1, deltas)
       IN  /\ out' = r.val
           /\ Finish("ApplyBoxDeltas", StatusOf(r))
    /\ boxes1' = ApplyBoxDeltasStorage(boxes1, deltas)
    /\ UNCHANGED <<boxes2, deltas, window, overlaps, loopOverlaps, area1, area2,
                   col, written, out2, once, before, pc>>

\* out = ClipBoxes(boxes1, w)
ClipBoxesCall ==
    /\ pc = "idle" /\ done = <<>> /\ OneSet
    /\ \E w \in Windows :
          /\ window' = w
          /\ LET r == ClipBoxes(boxes1, w)
             IN  /\ out' = r.val
                 /\ Finish("ClipBoxes", StatusOf(r))
          /\ boxes1' = ClipBoxesStorage(boxes1, w)
    /\ before' = boxes1
    /\ UNCHANGED <<boxes2, deltas, overlaps, loopOverlaps, area1, area2, col,
                   written, out2, once, pc>>

\* out2 = ClipBoxes(out, window): the returned boxes clipped again.
ClipBoxesAgain ==
    /\ pc = "idle" /\ done = <<"ClipBoxes">> /\ status[1] = "ok"
    /\ LET r == ClipBoxes(out, window)
       IN  /\ out2' = r.val
           /\ Finish("ClipBoxes", StatusOf(r))
    /\ out' = ClipBoxesStorage(out, window)
    /\ UNCHANGED <<boxes1, boxes2, deltas, window, overlaps, loopOverlaps, area1,
                   area2, col, written, once, before, pc>>

\* ClipToWindow(w, boxes1), first on untouched boxes, or after ClipBoxes
\* with the window ClipBoxes was given.  once keeps the boxes as this call
\* left them.
ClipToWindowCall ==
    /\ pc = "idle" /\ OneSet
    /\ \E w \in Windows :
          /\ \/ done = <<>>
             \/ done = <<"ClipBoxes">> /\ w = window
          /\ window' = w
          /\ boxes1' = ClipToWindow(w, boxes1)
    /\ once' = boxes1'
    /\ before' = boxes1
    /\ Finish("ClipToWindow", "ok")
    /\ UNCHANGED <<boxes2, deltas, overlaps, loopOverlaps, area1, area2, col,
                   written, out, out2, pc>>

\* ClipToWindow(window, boxes1) a second time with the same window.
ClipToWindowAgain ==
    /\ pc = "idle" /\ done = <<"ClipToWindow">>
    /\ boxes1' = ClipToWindow(window, boxes1)
    /\ Finish("ClipToWindow", "ok")
    /\ UNCHANGED <<boxes2, deltas, window, overlaps, loopOverlaps, area1, area2,
                   col, written, out, out2, once, before, pc>>

NextOverlap == BBoxOverlapsCall \/ LoopsBegin \/ LoopsIter \/ LoopsReturn

NextDelta == BoxRefinementCall \/ ApplyBoxDeltasCall

NextClip ==
    ClipBoxesCall \/ ClipBoxesAgain \/ ClipToWindowCall \/ ClipToWindowAgain

Next == NextOverlap \/ NextDelta \/ NextClip

Spec == Init /\ [][Next]_vars

SpecOverlap == Init /\ [][NextOverlap]_vars

SpecDelta == Init /\ [][NextDelta]_vars

SpecClip == Init /\ [][NextClip]_vars

\* ------------------------------------------------------------ properties
N == Len(boxes1)
M == Len(boxes2)
Returned1(name) == Len(done) >= 1 /\ done[1] = name
VecDone == Returned1("BBoxOverlaps")
LoopsDone == Len(done) >= 1 /\ done[Len(done)] = "BBoxOverlapsLoops"

\* The IoU of two boxes as the specification defines it: the clamped
\* intersection over area_a + area_b - intersection, each area being
\* (y2 - y1) * (x2 - x1).
BoxArea(b) == (b[3] - b[1]) * (b[4] - b[2])
Intersection(a, b) ==
    Max(Min(a[4], b[4]) - Max(a[2], b[2]), 0)
        * Max(Min(a[3], b[3]) - Max(a[1], b[1]), 0)
Iou(a, b) ==
    Div(Intersection(a, b), BoxArea(a) + BoxArea(b) - Intersection(a, b))

InUnit(e) == e[2] # 0 /\ 0 <= e[1] /\ e[1] <= e[2]

\* C1 as stated: BBoxOverlaps returns M rows of N entries, row j column i
\* holding the value computed for the pair (boxes1[i], boxes2[j]).
C1_RowsByBoxes2 ==
    VecDone =>
        /\ Len(overlaps) = M
        /\ \A j \in 1..M :
              /\ Len(overlaps[j]) = N
              /\ \A i \in 1..N : overlaps[j][i] = VecIou(boxes1[i], boxes2[j])

\* C1 amended: BBoxOverlaps returns N rows of M entries, rows indexed by
\* boxes1 and columns by boxes2; row i column j holds the quotient
\* intersection / union that BBoxOverlaps computes for (boxes1[i], boxes2[j]).
C1_RowsByBoxes1 ==
    VecDone =>
        /\ Len(overlaps) = N
        /\ \A i \in 1..N :
              /\ Len(overlaps[i]) = M
              /\ \A j \in 1..M : overlaps[i][j] = VecIou(boxes1[i], boxes2[j])

\* BBoxOverlaps has returned for N # M with two different entries.
C1_Witness ==
    /\ VecDone /\ N = 2 /\ M = 1
    /\ overlaps[1][1] # overlaps[2][1]

\* C2: once both functions have returned for the same box sets, the value
\* of BBoxOverlaps for every pair (i, j) is the value of BBoxOverlapsLoops
\* for that pair.
C2_SameValues ==
    done = <<"BBoxOverlaps", "BBoxOverlapsLoops">> =>
        \A i \in 1..N : \A j \in 1..M : overlaps[i][j] = loopOverlaps[i][j]

\* C3: where the same box stands in boxes1 and in boxes2, its entry is 1 in
\* the result of BBoxOverlaps and in the result of BBoxOverlapsLoops.
C3_Identity ==
    \A i \in 1..N : \A j \in 1..M :
        boxes1[i] = boxes2[j] =>
            /\ VecDone => overlaps[i][j] = Rat(1)
            /\ LoopsDone => loopOverlaps[i][j] = Rat(1)

\* C4: every entry of either result lies in [0, 1], the union that divides
\* being positive and at least the intersection.
C4_Range ==
    /\ VecDone =>
          \A i \in 1..N : \A j \in 1..M :
              /\ InUnit(overlaps[i][j])
              /\ VecUnion(boxes1[i], boxes2[j]) > 0
              /\ VecUnion(boxes1[i], boxes2[j]) >= VecIntersection(boxes1[i], boxes2[j])
    /\ LoopsDone =>
          \A i \in 1..N : \A j \in 1..M : InUnit(loopOverlaps[i][j])

\* C5: when BBoxOverlapsLoops returns, its matrix is N by M, every column
\* was written exactly once, and entry [i][j] is the IoU of boxes1[i] and
\* boxes2[j] (clamped intersection over area1[i] + area2[j] - intersection).
C5_LoopsMatrix ==
    LoopsDone =>
        /\ Len(loopOverlaps) = N
        /\ Len(written) = M
        /\ \A j \in 1..M : written[j] = 1
        /\ \A i \in 1..N :
              /\ Len(loopOverlaps[i]) = M
              /\ \A j \in 1..M : loopOverlaps[i][j] = Iou(boxes1[i], boxes2[j])

\* BBoxOverlapsLoops has returned a 2 by 2 matrix with a box pair that a gap
\* separates and an entry that is not zero.
C5_Witness ==
    /\ LoopsDone /\ N = 2 /\ M = 2
    /\ \E i \in 1..N : \E j \in 1..M :
          /\ Min(boxes1[i][3], boxes2[j][3]) < Max(boxes1[i][1], boxes2[j][1])
          /\ Min(boxes1[i][4], boxes2[j][4]) < Max(boxes1[i][2], boxes2[j][2])
          /\ loopOverlaps[i][j] = Rat(0)
    /\ \E i \in 1..N : \E j \in 1..M : loopOverlaps[i][j] # Rat(0)

\* The BBoxOverlapsLoops results also meet C3 and C4.
LoopsIdentityAndRange ==
    LoopsDone =>
        \A i \in 1..N : \A j \in 1..M :
            /\ InUnit(loopOverlaps[i][j])
            /\ boxes1[i] = boxes2[j] => loopOverlaps[i][j] = Rat(1)

AsRationals(b) == [i \in 1..Len(b) |-> [k \in 1..4 |-> Rat(b[i][k])]]

\* C6: ApplyBoxDeltas(A, BoxRefinement(A, B)) returns B, for box sets A and B
\* paired row by row.
C6_RoundTrip ==
    done = <<"BoxRefinement", "ApplyBoxDeltas">> =>
        /\ status[2] = "ok"
        /\ out = AsRationals(boxes2)

\* Where ApplyBoxDeltas returns (N >= 2), the round trip gives B.
RoundTripWhenReturned ==
    (done = <<"BoxRefinement", "ApplyBoxDeltas">> /\ status[2] = "ok") =>
        out = AsRationals(boxes2)

\* C7: a step of BBoxOverlaps, BBoxOverlapsLoops, BoxRefinement,
\* ApplyBoxDeltas or ClipBoxes leaves every array it was given as it was;
\* a step of ClipToWindow changes no array but the boxes it was given.
FrameStep ==
    LET returned == done' # done
        name == done'[Len(done')]
    IN  /\ (pc = "loop" \/ pc' = "loop") => UNCHANGED <<boxes1, boxes2>>
        /\ (returned /\ name \in {"BBoxOverlaps", "BBoxOverlapsLoops", "BoxRefinement"})
              => UNCHANGED <<boxes1, boxes2>>
        /\ (returned /\ name = "ApplyBoxDeltas") => UNCHANGED <<boxes1, deltas>>
        /\ (returned /\ name = "ClipBoxes")
              => /\ boxes1' = boxes1
                 /\ Len(done') = 2 => out' = out
        /\ (returned /\ name = "ClipToWindow")
              => UNCHANGED <<boxes2, deltas, overlaps, loopOverlaps, out, out2>>
\* C7: every step is a FrameStep, so no call but ClipToWindow changes an
\* array the caller passed, and ClipToWindow changes only its boxes.
C7_Frame == [][FrameStep]_vars

\* ClipBoxes returned boxes that differ from the ones it was given, and the
\* caller's boxes stayed as they were until ClipToWindow wrote them.
C7_Witness ==
    /\ done = <<"ClipBoxes", "ClipToWindow">> /\ status[1] = "ok"
    /\ out # before
    /\ boxes1 = out

\* value < lower -> lower, value > upper -> upper, else unchanged.
Clamped(v, lo, hi) == IF v < lo THEN lo ELSE IF v > hi THEN hi ELSE v
ClampedBoxes(b, w) ==
    [i \in 1..Len(b) |->
        <<Clamped(b[i][1], w[1], w[3]), Clamped(b[i][2], w[2], w[4]),
          Clamped(b[i][3], w[1], w[3]), Clamped(b[i][4], w[2], w[4])>>]
InWindow(b, w) == ClampedBoxes(b, w) = b

\* C8: both clipping functions return boxes that already lie in the window
\* unchanged, and a second clip with the same window returns what the first
\* returned.
C8_Idempotent ==
    /\ done = <<"ClipBoxes">> =>
          /\ status[1] = "ok"
          /\ InWindow(before, window) => out = before
    /\ done = <<"ClipBoxes", "ClipBoxes">> =>
          /\ status[2] = "ok"
          /\ out2 = out
    /\ done = <<"ClipToWindow">> =>
          (InWindow(before, window) => boxes1 = before)
    /\ done = <<"ClipToWindow", "ClipToWindow">> => boxes1 = once

\* C9: ClipBoxes returns, and ClipToWindow leaves in place, the boxes with
\* columns 0 and 2 clamped to [window.y1, window.y2] and columns 1 and 3 to
\* [window.x1, window.x2]; the two results are equal.
C9_SameClamp ==
    /\ Returned1("ClipBoxes") =>
          /\ status[1] = "ok"
          /\ out = ClampedBoxes(before, window)
    /\ done = <<"ClipBoxes", "ClipToWindow">> => out = boxes1
    /\ Returned1("ClipToWindow") => once = ClampedBoxes(before, window)

\* Where ClipBoxes returns (N >= 2), C8 and C9 hold of it.
ClipBoxesWhenReturned ==
    /\ (Returned1("ClipBoxes") /\ status[1] = "ok") =>
          /\ out = ClampedBoxes(before, window)
          /\ InWindow(before, window) => out = before
    /\ (done = <<"ClipBoxes", "ClipBoxes">> /\ status[2] = "ok") => out2 = out
    /\ (done = <<"ClipBoxes", "ClipToWindow">> /\ status[1] = "ok") => out = boxes1

\* ClipToWindow alone meets C8 and C9 for every N.
ClipToWindowClamps ==
    /\ Returned1("ClipToWindow") => once = ClampedBoxes(before, window)
    /\ done = <<"ClipToWindow", "ClipToWindow">> => boxes1 = once

IsBoxArray(t, n) == Len(t) = n /\ \A i \in 1..n : Len(t[i]) = 4

\* C10: for every N >= 1, ApplyBoxDeltas and ClipBoxes return an N by 4
\* array and never throw.
C10_RowsKept ==
    /\ done = <<"BoxRefinement", "ApplyBoxDeltas">> =>
          status[2] = "ok" /\ IsBoxArray(out, N)
    /\ done = <<"ClipBoxes">> =>
          status[1] = "ok" /\ IsBoxArray(out, N)
    /\ done = <<"BoxRefinement">> =>
          status[1] = "ok" /\ IsBoxArray(deltas, N)

\* BoxRefinement, with squeeze(1), returns N by 4 for every N >= 1.
BoxRefinementRowsKept ==
    Returned1("BoxRefinement") => status[1] = "ok" /\ IsBoxArray(deltas, N)

====
